---------------------------- MODULE Spec2Model ----------------------------
(***************************************************************************)
(* Model of src/api/search.py: the search query engine of the catalog.     *)
(*                                                                         *)
(* A string is a sequence of one-character strings.  One request is        *)
(* modelled per behaviour: Init draws the call (req) and the content of    *)
(* the catalog store (db) it will run against, and one action per entry    *)
(* point executes the whole call, leaving its result in ret and the store  *)
(* statements it issued, in order, in queries.                             *)
(***************************************************************************)
EXTENDS Integers, Sequences, FiniteSets, TLC

VARIABLES req, db, ret, queries

vars == <<req, db, ret, queries>>

-----------------------------------------------------------------------------
(* Bounds of the model *)

\* longest input of sanitise_string / available_term_by_category
MaxSanLen == 4
\* longest character-by-character input of parse_search_string
MaxParseLen == 5
\* most fragments concatenated into a structured search string
MaxFrags == 3
\* longest input of the unstructured mode
MaxSimpleLen == 4
\* most clauses of a structured search handed to search_bgcs
MaxClauses == 2
\* record identifiers are 1..MaxId
MaxId == 2
\* largest offset and page size of a paginated search
MaxOffset == 4
MaxPaginate == 3
\* record identifiers of a paginated search are 1..MaxPageId
MaxPageId == 4
\* longest unstructured search string handed to search_bgcs
MaxSimpleSearchLen == 3

-----------------------------------------------------------------------------
(* Characters and strings *)

UpperSeq ==
    <<"A","B","C","D","E","F","G","H","I","J","K","L","M",
      "N","O","P","Q","R","S","T","U","V","W","X","Y","Z">>

LowerSeq ==
    <<"a","b","c","d","e","f","g","h","i","j","k","l","m",
      "n","o","p","q","r","s","t","u","v","w","x","y","z">>

DigitSeq == <<"0","1","2","3","4","5","6","7","8","9">>

Range(f) == {f[i] : i \in DOMAIN f}

\* str.lower() / str.upper() of one character
lower(c) ==
    IF c \in Range(UpperSeq)
    THEN LowerSeq[CHOOSE i \in DOMAIN UpperSeq : UpperSeq[i] = c]
    ELSE c

upper(c) ==
    IF c \in Range(LowerSeq)
    THEN UpperSeq[CHOOSE i \in DOMAIN LowerSeq : LowerSeq[i] = c]
    ELSE c

upper_str(s) == [i \in DOMAIN s |-> upper(s[i])]

\* every string over alphabet A of length at most n
StringsUpTo(A, n) == UNION {[1..k -> A] : k \in 0..n}

RECURSIVE Concat(_)
Concat(ss) == IF ss = <<>> THEN <<>> ELSE Head(ss) \o Concat(Tail(ss))

\* '%{}%'.format(term) and friends
fmt(prefix, s, suffix) == prefix \o s \o suffix

-----------------------------------------------------------------------------
(* WHITELIST and sanitise_string *)

WHITELIST ==
    UNION {{UpperSeq[i], lower(UpperSeq[i])} : i \in DOMAIN UpperSeq}
    \cup Range(DigitSeq)
    \cup {"_", "-", "(", ")", " "}

\* a sanitiser that strips only the SQL wildcard instead of keeping the
\* allow-list
sanitise_blacklist(search_string) ==
    SelectSeq(search_string, LAMBDA c : c # "%")

RECURSIVE sanitise_loop(_, _, _)
sanitise_loop(search_string, i, cleaned) ==
    IF i > Len(search_string) THEN cleaned
    ELSE sanitise_loop(search_string, i + 1,
             IF search_string[i] \in WHITELIST
             THEN Append(cleaned, search_string[i])
             ELSE cleaned)

sanitise_string(search_string) == sanitise_loop(search_string, 1, <<>>)

-----------------------------------------------------------------------------
(* String constants of the source *)

None == <<"None">>

S_and == <<"a","n","d">>
S_or == <<"o","r">>
S_not == <<"n","o","t">>
S_type == <<"t","y","p","e">>
S_acc == <<"a","c","c">>
S_genus == <<"g","e","n","u","s">>
S_species == <<"s","p","e","c","i","e","s">>
S_monomer == <<"m","o","n","o","m","e","r">>
S_compound_seq == <<"c","o","m","p","o","u","n","d","_","s","e","q">>
S_CLUSTER_BY == <<"C","L","U","S","T","E","R","_","B","Y","_">>
S_FUZZY == <<"_","F","U","Z","Z","Y">>
S_OR_DESCRIPTION == <<"_","O","R","_","D","E","S","C","R","I","P","T","I","O","N">>

-----------------------------------------------------------------------------
(* parse_search_string: re.finditer(r'\[(\w+)(:\w+)?\](\w+)', search_string) *)

\* a word class that lets everything through but the punctuation of the
\* mini-syntax and white space
WordCharsLoose ==
    Range(UpperSeq) \cup Range(LowerSeq) \cup Range(DigitSeq) \cup {"_", "%", "'", "."}

\* \w without re.UNICODE / re.LOCALE: [a-zA-Z0-9_]
WordChars == Range(UpperSeq) \cup Range(LowerSeq) \cup Range(DigitSeq) \cup {"_"}

\* first index >= i whose character is not a word character (greedy \w*)
RECURSIVE word_end(_, _)
word_end(s, i) ==
    IF i <= Len(s) /\ s[i] \in WordChars THEN word_end(s, i + 1) ELSE i

NoMatch == [ok |-> FALSE]

\* the match of the pattern anchored at index i, or NoMatch.  \w+ is greedy
\* and neither ':' nor ']' is a word character, so giving characters back
\* never produces another match: each group is a maximal run.
match_at(s, i) ==
    IF i > Len(s) \/ s[i] # "[" THEN NoMatch
    ELSE
      LET c_end == word_end(s, i + 1)
          o_end == word_end(s, c_end + 1)
          has_op == /\ c_end <= Len(s) /\ s[c_end] = ":"
                    /\ o_end > c_end + 1
                    /\ o_end <= Len(s) /\ s[o_end] = "]"
          close == IF has_op THEN o_end ELSE c_end
          t_end == word_end(s, close + 1)
      IN  IF /\ c_end > i + 1
             /\ close <= Len(s) /\ s[close] = "]"
             /\ t_end > close + 1
          THEN [ok |-> TRUE,
                group1 |-> SubSeq(s, i + 1, c_end - 1),
                group2 |-> IF has_op THEN SubSeq(s, c_end, o_end - 1) ELSE None,
                group3 |-> SubSeq(s, close + 1, t_end - 1),
                start |-> i,
                end |-> t_end]
          ELSE NoMatch

\* the non-overlapping matches, scanning left to right from index pos
RECURSIVE finditer(_, _)
finditer(s, pos) ==
    IF pos > Len(s) THEN <<>>
    ELSE LET m == match_at(s, pos)
         IN  IF m.ok THEN <<m>> \o finditer(s, m.end)
             ELSE finditer(s, pos + 1)

\* a clause that keeps the ':' of the operation group
clause_keeps_colon(match) ==
    [category |-> match.group1,
     term |-> match.group3,
     operation |-> IF match.group2 = None THEN S_and ELSE match.group2]

\* the clause appended for one match
clause_of_match(match) ==
    [category |-> match.group1,
     term |-> match.group3,
     operation |-> IF match.group2 = None THEN S_and ELSE Tail(match.group2)]

parse_search_string(search_string) ==
    LET matches == finditer(search_string, 1)
    IN  [k \in DOMAIN matches |-> clause_of_match(matches[k])]

-----------------------------------------------------------------------------
(* The catalog store, as the statements of a request see it *)

\* one entry of queries: a statement handed to the store.  category and term
\* are the strings the caller passed in (before any wildcard is added),
\* params is what is bound to the statement, returned the canonical value a
\* classification probe answered with (None otherwise).
QEntry(kind, stmt, category, term, params, returned) ==
    [kind |-> kind, stmt |-> stmt, category |-> category, term |-> term,
     params |-> params, returned |-> returned]

\* the entry of a cluster statement, found under the attribute attr of sql
ClusterEntry(attr, category, term, search) ==
    [kind |-> "cluster", stmt |-> attr, category |-> category, term |-> term,
     params |-> search, returned |-> None]

\* the canonical value of the row a classification probe finds
Canonical(stmt, param) ==
    IF stmt = "SEARCH_IS_SPECIES"
    THEN <<"S","p","."," ">> \o SubSeq(param, 3, Len(param))
    ELSE upper_str(param)

\* cur.execute(stmt, (param, )); cur.fetchone() of a classification probe
fetchone(stmt, param) ==
    IF <<stmt, param>> \in db.matching THEN Canonical(stmt, param) ELSE None

\* the attributes of the sql module that clusters_by_category looks up
SqlAttrs ==
    {fmt(S_CLUSTER_BY, upper_str(S_type), S_OR_DESCRIPTION),
     fmt(S_CLUSTER_BY, upper_str(S_acc), <<>>),
     fmt(S_CLUSTER_BY, upper_str(S_genus), <<>>),
     fmt(S_CLUSTER_BY, upper_str(S_species), S_FUZZY),
     fmt(S_CLUSTER_BY, upper_str(S_monomer), S_FUZZY),
     fmt(S_CLUSTER_BY, upper_str(S_compound_seq), S_FUZZY)}

-----------------------------------------------------------------------------
(* parse_simple_search *)

Whitespace == {" ", "\t", "\n", "\r", "\f"}

\* str.split(): the maximal runs of non-whitespace characters
RECURSIVE split_loop(_, _, _, _)
split_loop(s, i, word, out) ==
    IF i > Len(s) THEN (IF word = <<>> THEN out ELSE Append(out, word))
    ELSE IF s[i] \in Whitespace
         THEN split_loop(s, i + 1, <<>>,
                         IF word = <<>> THEN out ELSE Append(out, word))
         ELSE split_loop(s, i + 1, Append(word, s[i]), out)

\* a split that forgets the word still open at the end of the string
split_no_flush(s) ==
    LET words == split_loop(s, 1, <<>>, <<>>)
    IN  IF s # <<>> /\ s[Len(s)] \notin Whitespace
        THEN SubSeq(words, 1, Len(words) - 1)
        ELSE words

split(s) == split_loop(s, 1, <<>>, <<>>)

\* the probes with genus and species in the other order
ProbeOrderSpeciesFirst ==
    <<[stmt |-> "SEARCH_IS_TYPE", category |-> S_type],
      [stmt |-> "SEARCH_IS_ACC", category |-> S_acc],
      [stmt |-> "SEARCH_IS_SPECIES", category |-> S_species],
      [stmt |-> "SEARCH_IS_GENUS", category |-> S_genus],
      [stmt |-> "SEARCH_IS_MONOMER", category |-> S_monomer]>>

\* the classification probes in the order the loop body issues them
ProbeOrder ==
    <<[stmt |-> "SEARCH_IS_TYPE", category |-> S_type],
      [stmt |-> "SEARCH_IS_ACC", category |-> S_acc],
      [stmt |-> "SEARCH_IS_GENUS", category |-> S_genus],
      [stmt |-> "SEARCH_IS_SPECIES", category |-> S_species],
      [stmt |-> "SEARCH_IS_MONOMER", category |-> S_monomer]>>

\* the parameter bound to a probe: '% {}'.format(term) for the species probe
probe_param(stmt, term) ==
    IF stmt = "SEARCH_IS_SPECIES" THEN fmt(<<"%", " ">>, term, <<>>) ELSE term

\* the body of the loop over cleaned_terms from probe k on: the clause
\* appended for term and the statements issued
RECURSIVE classify_from(_, _, _)
classify_from(term, k, log) ==
    IF k > Len(ProbeOrder)
    THEN [clause |-> [category |-> S_compound_seq, term |-> term,
                      operation |-> S_and],
          log |-> log]
    ELSE LET p == ProbeOrder[k]
             param == probe_param(p.stmt, term)
             r == fetchone(p.stmt, param)
             log2 == Append(log, QEntry("probe", p.stmt, <<>>, term, <<param>>, r))
         IN  IF r # None
             THEN [clause |-> [category |-> p.category, term |-> r,
                               operation |-> S_and],
                   log |-> log2]
             ELSE classify_from(term, k + 1, log2)

RECURSIVE simple_loop(_, _, _, _)
simple_loop(cleaned_terms, i, parsed, log) ==
    IF i > Len(cleaned_terms) THEN [parsed |-> parsed, log |-> log]
    ELSE LET c == classify_from(cleaned_terms[i], 1, log)
         IN  simple_loop(cleaned_terms, i + 1, Append(parsed, c.clause), c.log)

parse_simple_search(search_string) ==
    LET tokens == split(search_string)
        cleaned_terms == [i \in DOMAIN tokens |-> sanitise_string(tokens[i])]
    IN  simple_loop(cleaned_terms, 1, <<>>, <<>>)

-----------------------------------------------------------------------------
(* clusters_by_category *)

get_sql_by_category(category) == fmt(S_CLUSTER_BY, upper_str(category), <<>>)

get_sql_by_category_fuzzy(category) ==
    fmt(S_CLUSTER_BY, upper_str(category), S_FUZZY)

get_sql_by_category_or_desc(category) ==
    fmt(S_CLUSTER_BY, upper_str(category), S_OR_DESCRIPTION)

\* how many cluster statements the log holds
cluster_count(log) ==
    Cardinality({i \in DOMAIN log : log[i].kind = "cluster"})

\* cur.execute(sql_expression, search); cur.fetchall(): the store answers the
\* k-th cluster statement of a request with db.clusters[k]
fetch_clusters(log) == db.clusters[cluster_count(log) + 1]

\* getattr(sql, attr) raises AttributeError when the attribute is missing
clusters_by_category(category, term, log) ==
    LET wild == fmt(<<"%">>, term, <<"%">>)
        run(attr, search) ==
            LET rows == fetch_clusters(log)
            IN  [found |-> rows,
                 log |-> Append(log, ClusterEntry(attr, category, term, search))]
    IN  IF get_sql_by_category_fuzzy(category) \in SqlAttrs
        THEN run(get_sql_by_category_fuzzy(category), <<wild>>)
        ELSE IF get_sql_by_category(category) \in SqlAttrs
        THEN run(get_sql_by_category(category), <<term>>)
        ELSE IF get_sql_by_category_or_desc(category) \in SqlAttrs
        THEN run(get_sql_by_category_or_desc(category), <<term, wild>>)
        ELSE [found |-> {}, log |-> log]

-----------------------------------------------------------------------------
(* calculate_stats *)

EmptyStats == <<>>

\* zip(*rows) unpacked into labels and data; needs at least one row
zip_rows(rows) ==
    [labels |-> [i \in DOMAIN rows |-> rows[i][1]],
     data |-> [i \in DOMAIN rows |-> rows[i][2]]]

\* the two grouped-count statements and their unpacking
grouped_counts(bgc_list, log) ==
      LET log1 == Append(log, QEntry("stats", "SEARCH_SUMMARY_TYPES", <<>>, <<>>,
                                     <<bgc_list>>, None))
          log2 == Append(log1, QEntry("stats", "SEARCH_SUMMARY_PHYLUM", <<>>, <<>>,
                                      <<bgc_list>>, None))
      IN  IF db.types_rows = <<>>
          THEN [kind |-> "error", error |-> "ValueError", log |-> log1]
          ELSE IF db.phylum_rows = <<>>
          THEN [kind |-> "error", error |-> "ValueError", log |-> log2]
          ELSE [kind |-> "ok",
                stats |-> [k \in {"clusters_by_type", "clusters_by_phylum"} |->
                              IF k = "clusters_by_type"
                              THEN zip_rows(db.types_rows)
                              ELSE zip_rows(db.phylum_rows)],
                log |-> log2]

\* statistics without the early return on an empty list
calculate_stats_unguarded(bgc_list, log) == grouped_counts(bgc_list, log)

calculate_stats(bgc_list, log) ==
    IF Len(bgc_list) < 1
    THEN [kind |-> "ok", stats |-> EmptyStats, log |-> log]
    ELSE grouped_counts(bgc_list, log)

-----------------------------------------------------------------------------
(* search_bgcs *)

\* the loop over parsed_query that resolves each clause
RECURSIVE resolve_loop(_, _, _, _, _)
resolve_loop(parsed_query, i, collected_sets, all_clusters, log) ==
    IF i > Len(parsed_query)
    THEN [collected_sets |-> collected_sets, all_clusters |-> all_clusters,
          log |-> log]
    ELSE LET entry == parsed_query[i]
             r == clusters_by_category(entry.category, entry.term, log)
         IN  resolve_loop(parsed_query, i + 1, Append(collected_sets, r.found),
                          all_clusters \cup r.found, r.log)

\* a loop body whose fall-through branch keeps the accumulator as it is
combine_step_else_keeps(operation, final, result) ==
    IF operation = S_or THEN final \cup result
    ELSE IF operation = S_not THEN final \ result
    ELSE final

\* the body of the loop over collected_sets
combine_step(operation, final, result) ==
    IF operation = S_or THEN final \cup result
    ELSE IF operation = S_not THEN final \ result
    ELSE final \cap result

\* the loop over collected_sets from clause i on, final being the accumulator
RECURSIVE combine_loop(_, _, _, _)
combine_loop(parsed_query, collected_sets, i, final) ==
    IF i > Len(collected_sets) THEN final
    ELSE combine_loop(parsed_query, collected_sets, i + 1,
            combine_step(parsed_query[i].operation, final, collected_sets[i]))

\* a combiner that seeds the accumulator with the first clause's set
combine_seed_first(parsed_query, collected_sets, all_clusters) ==
    IF collected_sets = <<>> THEN {}
    ELSE combine_loop(parsed_query, collected_sets, 2, collected_sets[1])

\* final = all_clusters.copy() and the loop that folds the clauses into it
combine(parsed_query, collected_sets, all_clusters) ==
    combine_loop(parsed_query, collected_sets, 1, all_clusters)

\* list(final) followed by list.sort()
RECURSIVE sorted_list(_)
sorted_list(S) ==
    IF S = {} THEN <<>>
    ELSE LET m == CHOOSE x \in S : \A y \in S : x <= y
         IN  <<m>> \o sorted_list(S \ {m})

\* the end of the page without the offset
page_end_no_offset(offset, paginate, total) ==
    IF paginate > 0 THEN IF paginate < total THEN paginate ELSE total
    ELSE total

\* end of the slice
page_end(offset, paginate, total) ==
    IF paginate > 0
    THEN IF offset + paginate < total THEN offset + paginate ELSE total
    ELSE total

\* list[start:stop] for start, stop >= 0
py_slice(list, start, stop) ==
    LET hi == IF stop < Len(list) THEN stop ELSE Len(list)
    IN  IF start >= hi THEN <<>> ELSE SubSeq(list, start + 1, hi)

\* the record presenter handed in as mapfunc
mapfunc(bgc_id) == [bgc_id |-> bgc_id]

\* the return statement, and the exception of calculate_stats passed on
search_return(parsed_query, res, bgc_list, st, offset, paginate) ==
    IF st.kind = "error"
    THEN [kind |-> "error", error |-> st.error, parsed_query |-> parsed_query,
          collected_sets |-> res.collected_sets, bgc_list |-> bgc_list,
          log |-> st.log]
    ELSE [kind |-> "ok", total |-> Len(bgc_list), stats |-> st.stats,
          page |-> [i \in DOMAIN py_slice(bgc_list, offset,
                                          page_end(offset, paginate, Len(bgc_list)))
                    |-> mapfunc(bgc_list[offset + i])],
          parsed_query |-> parsed_query,
          collected_sets |-> res.collected_sets, bgc_list |-> bgc_list,
          log |-> st.log]

\* from bgc_list on: the statistics, then the page
search_listed(parsed_query, res, bgc_list, offset, paginate) ==
    search_return(parsed_query, res, bgc_list,
                  calculate_stats(bgc_list, res.log), offset, paginate)

\* from the resolved sets on: the combination, sorted
search_resolved(parsed_query, res, offset, paginate) ==
    search_listed(parsed_query, res,
                  sorted_list(combine(parsed_query, res.collected_sets,
                                      res.all_clusters)),
                  offset, paginate)

\* from parsed_query on: the resolution of every clause
search_parsed(parsed_query, log, offset, paginate) ==
    search_resolved(parsed_query, resolve_loop(parsed_query, 1, <<>>, {}, log),
                    offset, paginate)

\* the unstructured branch, simple being what parse_simple_search produced
search_simple(simple, offset, paginate) ==
    search_parsed(simple.parsed, simple.log, offset, paginate)

search_bgcs(search_string, offset, paginate) ==
    IF "[" \in Range(search_string)
    THEN search_parsed(parse_search_string(search_string), <<>>, offset, paginate)
    ELSE search_simple(parse_simple_search(search_string), offset, paginate)

-----------------------------------------------------------------------------
(* The Available-Terms Registry *)

S_superkingdom == <<"s","u","p","e","r","k","i","n","g","d","o","m">>
S_phylum == <<"p","h","y","l","u","m">>
S_class == <<"c","l","a","s","s">>
S_order == <<"o","r","d","e","r">>
S_family == <<"f","a","m","i","l","y">>
S_strain == <<"s","t","r","a","i","n">>
S_compound == <<"c","o","m","p","o","u","n","d">>

\* the keys register_handler stores: function.func_name.split('_')[-1]
AVAILABLE ==
    {S_superkingdom, S_phylum, S_class, S_order, S_family, S_genus, S_species,
     S_strain, S_acc, S_compound, S_monomer, S_type}

available_term_by_category(category, term) ==
    LET cleaned_category == sanitise_string(category)
        cleaned_term == sanitise_string(term)
    IN  IF cleaned_category \in AVAILABLE
        THEN [kind |-> "ok", rows |-> db.available_rows,
              log |-> <<QEntry("available", "AVAILABLE", cleaned_category,
                               cleaned_term, <<fmt(<<>>, cleaned_term, <<"%">>)>>,
                               None)>>]
        ELSE [kind |-> "ok", rows |-> <<>>, log |-> <<>>]

-----------------------------------------------------------------------------
(* The requests and stores a behaviour starts from *)

Req(op, search_string, offset, paginate, category, term, bgc_list) ==
    [op |-> op, search_string |-> search_string, offset |-> offset,
     paginate |-> paginate, category |-> category, term |-> term,
     bgc_list |-> bgc_list]

Db(matching, clusters, types_rows, phylum_rows, available_rows) ==
    [matching |-> matching, clusters |-> clusters, types_rows |-> types_rows,
     phylum_rows |-> phylum_rows, available_rows |-> available_rows]

\* grouped-count answers of the store
OneGroup == << <<"nrps", 1>> >>
TwoGroups == << <<"nrps", 1>>, <<"t1pks", 1>> >>
RowChoices == {<<>>, OneGroup, TwoGroups}

\* a store that is never consulted, or answers nothing
QuietDb == Db({}, <<>>, OneGroup, OneGroup, <<>>)

SanAlphabet == {"a", "Z", "7", "(", " ", "%", "'"}
ParseAlphabet == {"[", "]", ":", "g", " "}
SimpleAlphabet == {"a", "%", " "}

DocExample1 ==
    <<"[","t","y","p","e","]","l","a","n","t","h","i","p","e","p","t","i","d","e"," ","[","g","e","n","u","s","]","S","t","r","e","p","t","o","m","y","c","e","s">>

DocExample2 ==
    <<"[","g","e","n","u","s",":","a","n","d","]","S","t","r","e","p","t","o","m","y","c","e","s"," ","[","t","y","p","e",":","o","r","]","r","i","p","p"," ","[","t","y","p","e",":","n","o","t","]","l","a","s","s","o">>

\* pieces of structured search strings, well-formed and not:
\* "[type]s", "[genus:and]s", "[type:or]s", "[type:not]s", "[x:xor]s",
\* "[type:]s", "[type]", "[:or]s", "[ty pe]s", " ", "%", "s"
ParseFrags ==
    {<<"[","t","y","p","e","]","s">>, <<"[","g","e","n","u","s",":","a","n","d","]","s">>,
     <<"[","t","y","p","e",":","o","r","]","s">>, <<"[","t","y","p","e",":","n","o","t","]","s">>,
     <<"[","x",":","x","o","r","]","s">>, <<"[","t","y","p","e",":","]","s">>,
     <<"[","t","y","p","e","]">>, <<"[",":","o","r","]","s">>,
     <<"[","t","y"," ","p","e","]","s">>, <<" ">>, <<"%">>, <<"s">>}

\* pieces that each hold one clause, and one that holds none:
\* "[type]s ", "[genus:or]s%", "[acc:not]s ", "[type:xor]s ", "[x]s ", " [ "
SearchFrags ==
    {<<"[","t","y","p","e","]","s"," ">>, <<"[","g","e","n","u","s",":","o","r","]","s","%">>,
     <<"[","a","c","c",":","n","o","t","]","s"," ">>, <<"[","t","y","p","e",":","x","o","r","]","s"," ">>,
     <<"[","x","]","s"," ">>, <<" ","["," ">>}

Ids == 1..MaxId
PageIds == 1..MaxPageId

\* the variables before the call
Start(call, store) ==
    /\ req = call
    /\ db = store
    /\ ret = [kind |-> "pending"]
    /\ queries = <<>>

InitSanitise ==
    \E s \in StringsUpTo(SanAlphabet, MaxSanLen) :
        Start(Req("sanitise_string", s, 0, 0, <<>>, <<>>, <<>>), QuietDb)

InitParse ==
    \/ \E s \in StringsUpTo(ParseAlphabet, MaxParseLen) :
          Start(Req("parse_search_string", s, 0, 0, <<>>, <<>>, <<>>), QuietDb)
    \/ \E fs \in StringsUpTo(ParseFrags, MaxFrags) :
          Start(Req("parse_search_string", Concat(fs), 0, 0, <<>>, <<>>, <<>>),
                QuietDb)
    \/ \E s \in {DocExample1, DocExample2} :
          Start(Req("parse_search_string", s, 0, 0, <<>>, <<>>, <<>>), QuietDb)

\* the probe statements a search string can lead to, with their parameters
ProbeKeys(s) ==
    LET tokens == split(s)
    IN  {<<ProbeOrder[k].stmt,
           probe_param(ProbeOrder[k].stmt, sanitise_string(tokens[i]))>> :
            k \in DOMAIN ProbeOrder, i \in DOMAIN tokens}

InitSimple ==
    \E s \in StringsUpTo(SimpleAlphabet, MaxSimpleLen) :
        \E m \in SUBSET ProbeKeys(s) :
            Start(Req("parse_simple_search", s, 0, 0, <<>>, <<>>, <<>>),
                  Db(m, <<>>, OneGroup, OneGroup, <<>>))

\* structured searches with the default offset and page size
InitStructuredSearch ==
    \E fs \in StringsUpTo(SearchFrags, MaxClauses) :
        LET s == Concat(fs)
        IN  \E cl \in [1..Len(parse_search_string(s)) -> SUBSET Ids] :
                Start(Req("search_bgcs", s, 0, 0, <<>>, <<>>, <<>>),
                      Db({}, cl, OneGroup, TwoGroups, <<>>))

\* the worked example of the combiner, "[type:and]a [genus:not]b" with
\* A = {1,2,3} and B = {2,3,4}
ExampleSearch == <<"[","t","y","p","e",":","a","n","d","]","a"," ","[","g","e","n","u","s",":","n","o","t","]","b">>

InitExampleSearch ==
    Start(Req("search_bgcs", ExampleSearch, 0, 0, <<>>, <<>>, <<>>),
          Db({}, <<{1, 2, 3}, {2, 3, 4}>>, OneGroup, TwoGroups, <<>>))

\* unstructured searches, each token matching at most one probe
InitSimpleSearch ==
    \E s \in StringsUpTo(SimpleAlphabet, MaxSimpleSearchLen) :
        \E m \in {{}} \cup {{k} : k \in ProbeKeys(s)},
           cl \in [1..Len(split(s)) -> SUBSET Ids] :
            Start(Req("search_bgcs", s, 0, 0, <<>>, <<>>, <<>>),
                  Db(m, cl, OneGroup, TwoGroups, <<>>))

\* paginated searches of one clause
PagedSearch == <<"[","t","y","p","e","]","s">>

InitPage ==
    \E o \in 0..MaxOffset, p \in 0..MaxPaginate, S \in SUBSET PageIds,
       rows \in {<<>>, TwoGroups} :
        Start(Req("search_bgcs", PagedSearch, o, p, <<>>, <<>>, <<>>),
              Db({}, <<S>>, OneGroup, rows, <<>>))

InitStats ==
    \E S \in SUBSET PageIds, r1 \in RowChoices, r2 \in RowChoices :
        Start(Req("calculate_stats", <<>>, 0, 0, <<>>, <<>>, sorted_list(S)),
              Db({}, <<>>, r1, r2, <<>>))

AvailableCategories ==
    {S_genus, <<"g","%","e","n","u","s">>, S_class,
     S_compound_seq, <<>>, <<"%">>, <<"x">>}

InitAvailable ==
    \E c \in AvailableCategories, s \in StringsUpTo(SimpleAlphabet, MaxSanLen),
       rows \in {<<>>, <<S_genus>>} :
        Start(Req("available_term_by_category", <<>>, 0, 0, c, s, <<>>),
              Db({}, <<>>, OneGroup, OneGroup, rows))

-----------------------------------------------------------------------------
(* The state machine *)

Pending == [kind |-> "pending"]

Init ==
    \/ InitSanitise
    \/ InitParse
    \/ InitSimple
    \/ InitStructuredSearch
    \/ InitExampleSearch
    \/ InitSimpleSearch
    \/ InitPage
    \/ InitStats
    \/ InitAvailable

SanitiseString ==
    /\ req.op = "sanitise_string"
    /\ ret = Pending
    /\ ret' = [kind |-> "ok", value |-> sanitise_string(req.search_string)]
    /\ UNCHANGED <<req, db, queries>>

ParseSearchString ==
    /\ req.op = "parse_search_string"
    /\ ret = Pending
    /\ ret' = [kind |-> "ok", value |-> parse_search_string(req.search_string)]
    /\ UNCHANGED <<req, db, queries>>

ParseSimpleSearch ==
    /\ req.op = "parse_simple_search"
    /\ ret = Pending
    /\ LET r == parse_simple_search(req.search_string)
       IN  /\ ret' = [kind |-> "ok", value |-> r.parsed]
           /\ queries' = r.log
    /\ UNCHANGED <<req, db>>

SearchBgcs ==
    /\ req.op = "search_bgcs"
    /\ ret = Pending
    /\ \E r \in {search_bgcs(req.search_string, req.offset, req.paginate)} :
           /\ ret' = IF r.kind = "ok"
                     THEN [kind |-> "ok", total |-> r.total, stats |-> r.stats,
                           page |-> r.page, parsed_query |-> r.parsed_query,
                           collected_sets |-> r.collected_sets,
                           bgc_list |-> r.bgc_list]
                     ELSE [kind |-> "error", error |-> r.error,
                           parsed_query |-> r.parsed_query,
                           collected_sets |-> r.collected_sets,
                           bgc_list |-> r.bgc_list]
           /\ queries' = r.log
    /\ UNCHANGED <<req, db>>

CalculateStats ==
    /\ req.op = "calculate_stats"
    /\ ret = Pending
    /\ LET r == calculate_stats(req.bgc_list, <<>>)
       IN  /\ ret' = IF r.kind = "ok"
                     THEN [kind |-> "ok", stats |-> r.stats]
                     ELSE [kind |-> "error", error |-> r.error]
           /\ queries' = r.log
    /\ UNCHANGED <<req, db>>

AvailableTermByCategory ==
    /\ req.op = "available_term_by_category"
    /\ ret = Pending
    /\ LET r == available_term_by_category(req.category, req.term)
       IN  /\ ret' = [kind |-> "ok", rows |-> r.rows]
           /\ queries' = r.log
    /\ UNCHANGED <<req, db>>

Next ==
    \/ SanitiseString
    \/ ParseSearchString
    \/ ParseSimpleSearch
    \/ SearchBgcs
    \/ CalculateStats
    \/ AvailableTermByCategory

Spec == Init /\ [][Next]_vars

-----------------------------------------------------------------------------
(* Vocabulary of the properties, written without the definitions above *)

Letters ==
    {"A","B","C","D","E","F","G","H","I","J","K","L","M","N","O","P","Q","R",
     "S","T","U","V","W","X","Y","Z","a","b","c","d","e","f","g","h","i","j",
     "k","l","m","n","o","p","q","r","s","t","u","v","w","x","y","z"}

Digits == {"0","1","2","3","4","5","6","7","8","9"}

\* the allow-list of the sanitizer
AllowList == Letters \cup Digits \cup {"_", "-", "(", ")", " "}

\* the characters of an alphanumeric-underscore word
WordLetters == Letters \cup Digits \cup {"_"}

Clean(s) == \A i \in DOMAIN s : s[i] \in AllowList

Blank(c) == c \in {" ", "\t", "\n", "\r", "\f"}

Done(op) == req.op = op /\ ret.kind # "pending"

Returned(op) == req.op = op /\ ret.kind = "ok"

\* the number of elements of S that are at most x
Rank(S, x) == Cardinality({y \in S : y <= x})

\* s[a..b] is a non-empty run of word characters
IsWord(s, a, b) == a <= b /\ \A k \in a..b : s[k] \in WordLetters

\* the well-formed [category]term and [category:operation]term matches of s:
\* <<i, c, close, e>> with '[' at i, the category in i+1..c-1, ']' at close,
\* the operation (if any) in c+1..close-1 after a ':' at c, and the term in
\* close+1..e-1, a word that ends where the string or its run of word
\* characters ends
Spans(s) ==
    UNION {UNION {{<<i, c, close, e>> :
                      c \in {c \in (i + 2)..close :
                               /\ IsWord(s, i + 1, c - 1)
                               /\ \/ c = close
                                  \/ s[c] = ":" /\ IsWord(s, c + 1, close - 1)},
                      e \in {e \in (close + 2)..(Len(s) + 1) :
                               /\ IsWord(s, close + 1, e - 1)
                               /\ (e <= Len(s) => s[e] \notin WordLetters)}} :
                  close \in {k \in (i + 1)..Len(s) : s[k] = "]"}} :
           i \in {k \in DOMAIN s : s[k] = "["}}

SpanClause(s, sp) ==
    [category |-> SubSeq(s, sp[1] + 1, sp[2] - 1),
     term |-> SubSeq(s, sp[3] + 1, sp[4] - 1),
     operation |-> IF sp[2] = sp[3] THEN <<"a","n","d">>
                   ELSE SubSeq(s, sp[2] + 1, sp[3] - 1)]

\* the whitespace-separated tokens of s, by the index each starts at
TokenStarts(s) ==
    {i \in DOMAIN s : ~Blank(s[i]) /\ (i = 1 \/ Blank(s[i - 1]))}

TokenAt(s, i) ==
    LET e == CHOOSE e \in i..Len(s) :
                 /\ \A k \in i..e : ~Blank(s[k])
                 /\ (e < Len(s) => Blank(s[e + 1]))
    IN  SubSeq(s, i, e)

\* s without the characters outside the allow-list
Stripped(s) ==
    LET K == {i \in DOMAIN s : s[i] \in AllowList}
    IN  [k \in 1..Cardinality(K) |-> s[CHOOSE i \in K : Rank(K, i) = k]]

\* membership in the fold of section 4.5 after the first k clauses
RECURSIVE InFold(_, _, _, _)
InFold(x, query, sets, k) ==
    IF k = 0 THEN \E i \in DOMAIN sets : x \in sets[i]
    ELSE IF query[k].operation = <<"o","r">>
         THEN InFold(x, query, sets, k - 1) \/ x \in sets[k]
    ELSE IF query[k].operation = <<"n","o","t">>
         THEN InFold(x, query, sets, k - 1) /\ x \notin sets[k]
    ELSE InFold(x, query, sets, k - 1) /\ x \in sets[k]

FoldSet(query, sets) ==
    {x \in UNION {sets[i] : i \in DOMAIN sets} : InFold(x, query, sets, Len(sets))}

\* the conventional left fold: the first clause's set, then the others
RECURSIVE SeededFold(_, _, _)
SeededFold(query, sets, k) ==
    IF k = 0 THEN {}
    ELSE IF k = 1 THEN sets[1]
    ELSE IF query[k].operation = <<"o","r">>
         THEN SeededFold(query, sets, k - 1) \cup sets[k]
    ELSE IF query[k].operation = <<"n","o","t">>
         THEN SeededFold(query, sets, k - 1) \ sets[k]
    ELSE SeededFold(query, sets, k - 1) \cap sets[k]

ResultSet == {ret.bgc_list[i] : i \in DOMAIN ret.bgc_list}

PageIdSet == {ret.page[i].bgc_id : i \in DOMAIN ret.page}

-----------------------------------------------------------------------------
(* Properties *)

\* C1: the result set of search_bgcs is the fold that starts from the union
\* of all resolved sets and, clause by clause in the original order, unites
\* on 'or', subtracts on 'not' and intersects otherwise; for A = {1,2,3},
\* B = {2,3,4} and the clauses [A and], [B not] it is {1}.
C1_ResultIsFoldFromUnion ==
    Done("search_bgcs") =>
        /\ ResultSet = FoldSet(ret.parsed_query, ret.collected_sets)
        /\ ret.kind = "ok" =>
              /\ ret.total = Cardinality(FoldSet(ret.parsed_query, ret.collected_sets))
              /\ (req.offset = 0 /\ req.paginate = 0) =>
                    PageIdSet = FoldSet(ret.parsed_query, ret.collected_sets)
        /\ (/\ ret.collected_sets = <<{1, 2, 3}, {2, 3, 4}>>
            /\ Len(ret.parsed_query) = 2
            /\ ret.parsed_query[1].operation = <<"a","n","d">>
            /\ ret.parsed_query[2].operation = <<"n","o","t">>) =>
              ResultSet = {1}

C1_Witness ==
    /\ Returned("search_bgcs")
    /\ req.search_string = ExampleSearch
    /\ ret.collected_sets = <<{1, 2, 3}, {2, 3, 4}>>
    /\ ret.parsed_query[1].operation = <<"a","n","d">>
    /\ ret.parsed_query[2].operation = <<"n","o","t">>
    /\ ret.page = <<[bgc_id |-> 1]>>

\* C2: parse_search_string returns one clause per well-formed match, in the
\* order of the matches, with operation 'and' when no ':operation' is given
\* and the given operation otherwise; everything else is ignored and nothing
\* makes it fail.
C2_OneClausePerMatch ==
    Done("parse_search_string") =>
        LET s == req.search_string
            starts == {sp[1] : sp \in Spans(s)}
        IN  /\ ret.kind = "ok"
            /\ Len(ret.value) = Cardinality(Spans(s))
            /\ Cardinality(starts) = Cardinality(Spans(s))
            /\ \A sp \in Spans(s) :
                  ret.value[Rank(starts, sp[1])] = SpanClause(s, sp)

C2_Witness ==
    /\ Returned("parse_search_string")
    /\ req.search_string = DocExample2
    /\ Len(ret.value) = 3
    /\ ret.value[1] = [category |-> S_genus, operation |-> S_and,
                       term |-> <<"S","t","r","e","p","t","o","m","y","c","e","s">>]
    /\ ret.value[2] = [category |-> S_type, operation |-> S_or,
                       term |-> <<"r","i","p","p">>]
    /\ ret.value[3] = [category |-> S_type, operation |-> S_not,
                       term |-> <<"l","a","s","s","o">>]

\* C3: every clause either parse mode produces has an operation that is one
\* of and, or, not.
C3_OperationIsAndOrNot ==
    (Done("parse_search_string") \/ Done("parse_simple_search")) =>
        \A k \in DOMAIN ret.value :
            ret.value[k].operation \in {<<"a","n","d">>, <<"o","r">>, <<"n","o","t">>}

\* the classification probes in the priority order of section 4.3, each
\* with the category it stands for
Priority ==
    <<[stmt |-> "SEARCH_IS_TYPE", category |-> <<"t","y","p","e">>],
      [stmt |-> "SEARCH_IS_ACC", category |-> <<"a","c","c">>],
      [stmt |-> "SEARCH_IS_GENUS", category |-> <<"g","e","n","u","s">>],
      [stmt |-> "SEARCH_IS_SPECIES", category |-> <<"s","p","e","c","i","e","s">>],
      [stmt |-> "SEARCH_IS_MONOMER", category |-> <<"m","o","n","o","m","e","r">>]>>

\* the probes of the store that match the sanitised token
Hits(term) ==
    {k \in DOMAIN Priority :
        <<Priority[k].stmt,
          IF Priority[k].stmt = "SEARCH_IS_SPECIES" THEN <<"%", " ">> \o term
          ELSE term>> \in db.matching}

FirstHit(term) == CHOOSE k \in Hits(term) : \A j \in Hits(term) : k <= j

\* the canonical value the store returns for probe k and the sanitised token
HitValue(k, term) ==
    Canonical(Priority[k].stmt,
              IF Priority[k].stmt = "SEARCH_IS_SPECIES" THEN <<"%", " ">> \o term
              ELSE term)

\* C4: parse_simple_search emits one clause per whitespace-separated token,
\* in token order, always with operation 'and'; the category is the first of
\* type, accession, genus, species, monomer whose probe matches, the term
\* then being the canonical value of that probe, and compound_seq with the
\* sanitised token when no probe matches.
C4_ClassifiedByPriority ==
    Done("parse_simple_search") =>
        LET s == req.search_string
            T == TokenStarts(s)
        IN  /\ ret.kind = "ok"
            /\ Len(ret.value) = Cardinality(T)
            /\ \A i \in T :
                  LET clause == ret.value[Rank(T, i)]
                      term == Stripped(TokenAt(s, i))
                  IN  /\ clause.operation = <<"a","n","d">>
                      /\ Hits(term) = {} =>
                            /\ clause.category =
                                  <<"c","o","m","p","o","u","n","d","_","s","e","q">>
                            /\ clause.term = term
                      /\ Hits(term) # {} =>
                            /\ clause.category = Priority[FirstHit(term)].category
                            /\ clause.term = HitValue(FirstHit(term), term)

\* a token that matches the genus and the species probe, classified as genus
C4_Witness ==
    /\ Returned("parse_simple_search")
    /\ Len(ret.value) = 2
    /\ \E i \in TokenStarts(req.search_string) :
          LET term == Stripped(TokenAt(req.search_string, i))
          IN  /\ Hits(term) = {3, 4}
              /\ ret.value[Rank(TokenStarts(req.search_string), i)].category
                    = <<"g","e","n","u","s">>
              /\ ret.value[Rank(TokenStarts(req.search_string), i)].term # term

\* C5: the page is the ascending list of the result's identifiers sliced as
\* ids[offset:] when limit = 0 and ids[offset : min(offset+limit, N)]
\* otherwise: never more than limit elements when limit > 0, nothing beyond
\* index N-1, and empty when offset >= N.
C5_PageIsSliceOfSortedIds ==
    Returned("search_bgcs") =>
        LET ids == ret.bgc_list
            N == Len(ids)
            o == req.offset
            l == req.paginate
            hi == IF l = 0 \/ o + l > N THEN N ELSE o + l
            count == IF hi > o THEN hi - o ELSE 0
        IN  /\ \A i \in 1..(N - 1) : ids[i] < ids[i + 1]
            /\ ResultSet = FoldSet(ret.parsed_query, ret.collected_sets)
            /\ N = Cardinality(ResultSet)
            /\ Len(ret.page) = count
            /\ \A i \in 1..count : ret.page[i] = mapfunc(ids[o + i])
            /\ (l > 0 => Len(ret.page) <= l)
            /\ (o >= N => ret.page = <<>>)

C5_Witness ==
    /\ Returned("search_bgcs")
    /\ req.offset > 0
    /\ req.paginate > 0
    /\ req.offset + req.paginate < Len(ret.bgc_list)
    /\ Len(ret.page) = req.paginate
    /\ ret.page[1].bgc_id = ret.bgc_list[req.offset + 1]

\* C6: an empty ParsedQuery (empty or whitespace-only input) makes
\* search_bgcs return total 0, empty stats and an empty page, with no error
\* and no grouped-count statement; calculate_stats returns the empty stats
\* block exactly when the identifier list is empty.
C6_EmptyQueryEmptyResult ==
    /\ Done("search_bgcs") =>
          /\ (\A i \in DOMAIN req.search_string : Blank(req.search_string[i])) =>
                ret.parsed_query = <<>>
          /\ ret.parsed_query = <<>> =>
                /\ ret.kind = "ok"
                /\ ret.total = 0
                /\ DOMAIN ret.stats = {}
                /\ ret.page = <<>>
                /\ \A i \in DOMAIN queries : queries[i].kind # "stats"
    /\ Done("calculate_stats") =>
          /\ req.bgc_list = <<>> =>
                ret.kind = "ok" /\ DOMAIN ret.stats = {} /\ queries = <<>>
          /\ (ret.kind = "ok" /\ req.bgc_list # <<>>) =>
                DOMAIN ret.stats = {"clusters_by_type", "clusters_by_phylum"}

C6_Witness ==
    /\ Returned("search_bgcs")
    /\ req.search_string # <<>>
    /\ \A i \in DOMAIN req.search_string : Blank(req.search_string[i])
    /\ ret.total = 0
    /\ queries = <<>>

\* C7: sanitise_string(s) is s without the characters outside the
\* allow-list, the others in their original order; no character outside the
\* allow-list is in the output, empty input gives empty output, and
\* sanitising twice is sanitising once.
C7_SanitiseKeepsAllowList ==
    Done("sanitise_string") =>
        LET s == req.search_string
            K == {i \in DOMAIN s : s[i] \in AllowList}
        IN  /\ ret.kind = "ok"
            /\ Len(ret.value) = Cardinality(K)
            /\ \A i \in K : ret.value[Rank(K, i)] = s[i]
            /\ \A k \in DOMAIN ret.value : ret.value[k] \in AllowList
            /\ (s = <<>> => ret.value = <<>>)
            /\ sanitise_string(ret.value) = ret.value

C7_Witness ==
    /\ Returned("sanitise_string")
    /\ Len(req.search_string) = 3
    /\ req.search_string[2] \notin AllowList
    /\ ret.value = <<req.search_string[1], req.search_string[3]>>

\* the user's term as a statement binds it: bare, or inside the wildcards
\* the code adds
Wrappings(term) ==
    {term, <<"%">> \o term \o <<"%">>, <<"%", " ">> \o term, term \o <<"%">>}

C9_NonEmptyInputHasClause ==
    (Done("search_bgcs") /\ req.search_string # <<>>) =>
        Len(ret.parsed_query) >= 1

\* C9: a search string without '[' that holds a character that is no white
\* space, or with '[' and a well-formed match, gives a ParsedQuery of at
\* least one clause; any other search string gives an empty ParsedQuery.
C9_TokenOrMatchHasClause ==
    Done("search_bgcs") =>
        LET s == req.search_string
        IN  /\ "[" \notin Range(s) =>
                  (Len(ret.parsed_query) >= 1 <=> \E i \in DOMAIN s : ~Blank(s[i]))
            /\ "[" \in Range(s) =>
                  (Len(ret.parsed_query) >= 1 <=> Spans(s) # {})

C9_Witness ==
    /\ Done("search_bgcs")
    /\ "[" \notin Range(req.search_string)
    /\ req.search_string # <<>>
    /\ Blank(req.search_string[1])
    /\ \E i \in DOMAIN req.search_string : req.search_string[i] = "%"
    /\ Len(ret.parsed_query) = 1

\* C10: the result is a subset of the union of the resolved sets, and when
\* the first clause's operation is neither 'or' nor 'not' it equals the
\* left fold seeded with the first clause's set.
C10_AgreesWithSeededFold ==
    Done("search_bgcs") =>
        /\ ResultSet \subseteq UNION {ret.collected_sets[i] : i \in DOMAIN ret.collected_sets}
        /\ (/\ Len(ret.parsed_query) >= 1
            /\ ret.parsed_query[1].operation \notin {<<"o","r">>, <<"n","o","t">>}) =>
              ResultSet = SeededFold(ret.parsed_query, ret.collected_sets,
                                     Len(ret.collected_sets))

C10_Witness ==
    /\ Returned("search_bgcs")
    /\ Len(ret.parsed_query) = 2
    /\ ret.parsed_query[1].operation \notin {<<"a","n","d">>, <<"o","r">>, <<"n","o","t">>}
    /\ ret.parsed_query[2].operation = <<"o","r">>
    /\ ret.collected_sets[1] = {1}
    /\ ret.collected_sets[2] = {2}
    /\ ResultSet = {1, 2}

=============================================================================
